---- MODULE Spec2Model ----
(***************************************************************************)
(* PGURE-SVT: the entry function PGURESVT (src/src/lib-PGURE-SVT.cpp) and  *)
(* the scheduler parallel() (parallel.hpp, src/unnamed/part_000).          *)
(*                                                                         *)
(* Four specifications share the variables below:                          *)
(*   Spec     one call of PGURESVT: median batch, hot-pixel filter, frame  *)
(*            batch, copy to Y; both batches run through parallel();       *)
(*   SpecPar  one call parallel(func, first, last, threshold) on its own,  *)
(*            func a counting work unit;                                   *)
(*   SpecWin  the window extraction and write-back of one frame index, as  *)
(*            a function of (num_images, T, timeiter).                     *)
(*   SpecThreads  the call of Spec with the argument numthreads varied.     *)
(***************************************************************************)
EXTENDS Integers, Sequences, FiniteSets, TLC

\* ---------------------------------------------------------------- bounds
MaxCores     == 3    \* std::thread::hardware_concurrency() ranges over 0..MaxCores
MaxImages    == 3    \* num_images ranges over 1..MaxImages
MaxFirst     == 2    \* SpecPar: dim_first ranges over 0..MaxFirst
MaxThreshold == 2    \* SpecPar: threshold ranges over 0..MaxThreshold
MaxT         == 3    \* Spec: T ranges over 0..MaxT
FrameSide    == 1    \* Nx = Ny = FrameSide; Bs ranges over FrameSide..FrameSide+1
MaxSeq       == 10   \* SpecWin: num_images ranges over 1..MaxSeq
MaxWinT      == 6    \* SpecWin: T ranges over 0..MaxWinT
MaxThreads   == 2    \* SpecThreads: numthreads ranges over 1..MaxThreads
MaxParCores  == 4    \* SpecPar: hardware_concurrency() ranges over 0..MaxParCores
MaxRange     == 5    \* SpecPar: last - first ranges over 0..MaxRange

\* ------------------------------------------------------------- variables
VARIABLES
  \* the caller's view
  pc,              \* position of PGURESVT (or of the harness of SpecPar / SpecWin)
  X, Y,            \* the caller's buffers, one abstract value per frame
  X0,              \* what X held when PGURESVT was called
  status,          \* <<v>> once PGURESVT has returned v, <<>> before
  \* the arguments of PGURESVT
  num_images, T, Bs, pgureOpt, userLambda, params0, numthreads,
  omp_num_threads, \* the OpenMP runtime's thread count, 0 while never set
  \* locals of PGURESVT shared with the work units by reference
  params,          \* alpha, mu, sigma (captured by reference, lines 87-89, 183)
  noisysequence, filteredsequence, cleansequence,
  \* parallel()
  total_cores, dim_first, dim_last, threshold,
  batch,           \* which func the running parallel() call was given
  ppc,             \* position inside parallel()
  index,           \* loop variable of the launch loops, then of the join loop
  threads,         \* thread id -> [a, b, u]; id 0 is the calling thread
  \* observation
  calls,           \* batch -> index -> number of invocations of func on it
  obs,             \* per-frame record of what the frame work unit did
  acc,             \* accesses of the frame work units to by-reference captures
  hotpixel_calls,  \* number of calls of HotPixelFilter
  heap             \* frame -> the memory blocks of that frame's median work unit

inputs   == <<num_images, T, Bs, pgureOpt, userLambda, params0, numthreads, total_cores>>
range    == <<dim_first, dim_last, threshold>>
buffers  == <<X, Y, X0, status>>
shared   == <<params, noisysequence, filteredsequence, cleansequence>>
watch    == <<calls, obs, acc>>
prep     == <<hotpixel_calls, heap>>
vars     == <<pc, inputs, prep, omp_num_threads, range, buffers, shared, batch, ppc, index, threads, watch>>

\* ------------------------------------------------------------- helpers
Min(x, y) == IF x <= y THEN x ELSE y

\* the indices 0..n-1
Frames(n) == 0..(n - 1)
Batches == {"count", "mfunc", "func"}

Slots == {"alpha", "mu", "sigma"}

\* a work unit that is not running
IdleUnit == [pc |-> "idle", lo |-> 0, hi |-> 0, neg |-> {}]

\* a thread's job: `from` is the index it was started on, [a, b) is what is left
Job(a, b) == [from |-> a, a |-> a, b |-> b, u |-> IdleUnit]

NoJob == Job(0, 0)

\* no invocation yet on any index below n
NoCalls(n) == [bt \in Batches |-> [i \in Frames(n) |-> 0]]

\* ------------------------------------------------------------ parallel()
\* dim_last - dim_first (line 24, 34, 52)
RangeSize == dim_last - dim_first

\* the sequential case taken on the core count alone
IsSequential_cores == total_cores <= 1

\* line 24: the sequential case
IsSequential == (total_cores <= 1) \/ (RangeSize <= threshold)

\* one worker per index only below the core count
IsSmallJob_below == RangeSize < total_cores

\* line 34: one worker per index
IsSmallJob == RangeSize <= total_cores

\* line 52: tasks_per_thread
tasks_per_thread == (RangeSize + total_cores - 1) \div total_cores

\* lines 57-60: the block of worker `k`
slice_first(k) == Min(tasks_per_thread * k + dim_first, dim_last)
slice_last(k)  == Min(slice_first(k) + tasks_per_thread, dim_last)

\* line 64: the first argument of the calling thread's job_slice
main_first == tasks_per_thread * (total_cores - 1)

\* lines 46-48 (and the loops of lines 27, 36): the thread still has an index to run
HasWork(th) == th.a < th.b

\* a thread has run to completion: no index left and no unit in progress
Finished(th) == ~HasWork(th) /\ th.u.pc = "idle"

Workers == DOMAIN threads \ {0}

emplace_back(th) ==
  [t \in 0..Cardinality(DOMAIN threads) |-> IF t \in DOMAIN threads THEN threads[t] ELSE th]

\* a join that does not wait for the thread
JoinReady_nowait(th) == TRUE

\* th.join() returns once the thread has finished (lines 38-39, 66-67)
JoinReady(th) == Finished(th)

Alive == pc \notin {"terminated", "threw", "returned"}

\* lines 21-34: the branch taken
ParEntry ==
  /\ Alive /\ ppc = "entry"
  /\ IF IsSequential
       THEN /\ ppc' = "seq"
            /\ threads' = [t \in {0} |-> Job(dim_first, dim_last)]
            /\ index' = 0
       ELSE IF IsSmallJob
         THEN /\ ppc' = "spawn_each"
              /\ threads' = [t \in {0} |-> NoJob]
              /\ index' = dim_first
         ELSE /\ ppc' = "spawn_slice"
              /\ threads' = [t \in {0} |-> NoJob]
              /\ index' = 0
  /\ UNCHANGED <<pc, inputs, prep, omp_num_threads, range, buffers, shared, batch, watch>>

\* lines 36-37: one thread per index
SpawnEach ==
  /\ Alive /\ ppc = "spawn_each" /\ index /= dim_last
  /\ threads' = emplace_back(Job(index, index + 1))
  /\ index' = index + 1
  /\ UNCHANGED <<pc, inputs, prep, omp_num_threads, range, buffers, shared, batch, ppc, watch>>

SpawnEachDone ==
  /\ Alive /\ ppc = "spawn_each" /\ index = dim_last
  /\ ppc' = "join" /\ index' = 1
  /\ UNCHANGED <<pc, inputs, prep, omp_num_threads, range, buffers, shared, batch, threads, watch>>

\* lines 55-62: total_cores-1 threads, one block each
SpawnSlice ==
  /\ Alive /\ ppc = "spawn_slice" /\ index /= total_cores - 1
  /\ threads' = emplace_back(Job(slice_first(index), slice_last(index)))
  /\ index' = index + 1
  /\ UNCHANGED <<pc, inputs, prep, omp_num_threads, range, buffers, shared, batch, ppc, watch>>

\* line 64: the calling thread runs job_slice( tasks_per_thread*(total_cores-1), dim_last )
MainSlice ==
  /\ Alive /\ ppc = "spawn_slice" /\ index = total_cores - 1
  /\ threads' = [threads EXCEPT ![0] = Job(main_first, dim_last)]
  /\ ppc' = "main"
  /\ UNCHANGED <<pc, inputs, prep, omp_num_threads, range, buffers, shared, batch, index, watch>>

\* line 64 returns: on to the join loop of lines 66-67
MainSliceDone ==
  /\ Alive /\ ppc = "main" /\ Finished(threads[0])
  /\ ppc' = "join" /\ index' = 1
  /\ UNCHANGED <<pc, inputs, prep, omp_num_threads, range, buffers, shared, batch, threads, watch>>

\* lines 27-29: the sequential loop has ended
SeqDone ==
  /\ Alive /\ ppc = "seq" /\ Finished(threads[0])
  /\ ppc' = "ret"
  /\ UNCHANGED <<pc, inputs, prep, omp_num_threads, range, buffers, shared, batch, index, threads, watch>>

\* lines 38-39, 66-67: th.join(), in launch order
JoinThread ==
  /\ Alive /\ ppc = "join" /\ index \in Workers
  /\ JoinReady(threads[index])
  /\ index' = index + 1
  /\ UNCHANGED <<pc, inputs, prep, omp_num_threads, range, buffers, shared, batch, ppc, threads, watch>>

\* lines 40, 68: every thread joined, parallel() returns
JoinDone ==
  /\ Alive /\ ppc = "join" /\ index \notin Workers
  /\ ppc' = "ret"
  /\ UNCHANGED <<pc, inputs, prep, omp_num_threads, range, buffers, shared, batch, index, threads, watch>>

\* the threads that may take a step of func now: launched workers, and the
\* calling thread while it is inside its own loop (lines 27-28, 64)
CanRun(t) ==
  /\ t \in DOMAIN threads
  /\ t = 0 => ppc \in {"seq", "main"}

Counted(bt, i) == [calls EXCEPT ![bt][i] = @ + 1]

\* func(a) returned: the loop moves to the next index
Advance(t) == [threads EXCEPT ![t].a = @ + 1, ![t].u = IdleUnit]

\* SpecPar's func: a work unit that only counts its invocation
CountUnit(t) ==
  /\ Alive /\ batch = "count" /\ CanRun(t) /\ HasWork(threads[t])
  /\ calls' = Counted("count", threads[t].a)
  /\ threads' = Advance(t)
  /\ UNCHANGED <<pc, inputs, prep, omp_num_threads, range, buffers, shared, batch, ppc, index, obs, acc>>

Scheduler ==
  \/ ParEntry
  \/ SpawnEach
  \/ SpawnEachDone
  \/ SpawnSlice
  \/ MainSlice
  \/ MainSliceDone
  \/ SeqDone
  \/ JoinThread
  \/ JoinDone

\* ------------------------------------------------------------ PGURESVT
\* One abstract value per frame: an all-zero frame, a frame of regular
\* intensities, a frame that holds a hot pixel.
ZeroFrame == "zero"
PlainFrame == "plain"
HotFrame == "hot"

\* lines 115-116: dims[0], dims[1]
Nx == FrameSide
Ny == FrameSide

\* the cube built on the caller's memory instead of on a copy
copy_aux_mem_off == FALSE

\* arma::cube(X, Nx, Ny, num_images): copy_aux_mem defaults to true, so the
\* cube owns a copy of the caller's memory (line 120)
copy_aux_mem == TRUE

\* HotPixelFilter(noisysequence, hotpixelthreshold): outlier pixels replaced
HotPixelFilter(seq) == [i \in DOMAIN seq |-> IF seq[i] = HotFrame THEN PlainFrame ELSE seq[i]]

\* ConstantTimeMedianFilter on one slice (lines 138-147)
MedianOf(v) == IF v = HotFrame THEN PlainFrame ELSE v

\* line 113
lambda == IF userLambda >= 0 THEN userLambda ELSE 0

\* line 181: int framewindow = std::floor(T/2), T/2 an int division
framewindow == T \div 2

\* the end clamp one frame late
WinLo_late(i) ==
  IF i < framewindow THEN 0
  ELSE IF i >= num_images - framewindow THEN num_images - 2 * framewindow
  ELSE i - framewindow

\* lines 187-198: the slices taken from noisysequence ...
WinLo(i) ==
  IF i < framewindow THEN 0
  ELSE IF i >= num_images - framewindow THEN num_images - 2 * framewindow - 1
  ELSE i - framewindow

WinHi(i) ==
  IF i < framewindow THEN 2 * framewindow
  ELSE IF i >= num_images - framewindow THEN num_images - 1
  ELSE i + framewindow

\* ... and from filteredsequence (lines 189, 193, 197)
FiltLo(i) ==
  IF i < framewindow THEN 0
  ELSE IF i >= num_images - framewindow THEN num_images - 2 * framewindow - 1
  ELSE i - framewindow

FiltHi(i) ==
  IF i < framewindow THEN 2 * framewindow
  ELSE IF i >= num_images - framewindow THEN num_images - 1
  ELSE i + framewindow

\* Cube::slices(first, last) throws unless first <= last < n_slices
SlicesInBounds(lo, hi) == 0 <= lo /\ lo <= hi /\ hi <= num_images - 1

\* the window's centre frame taken whatever the branch
SliceOff_centered(i) == framewindow

\* lines 253-262: the slice of v placed into cleansequence.slice(timeiter)
SliceOff(i) ==
  IF i < framewindow THEN i
  ELSE IF i >= num_images - framewindow THEN i - (num_images - T)
  ELSE framewindow

\* the slice of cleansequence indexed like the slice of v
TargetSlice_off(i) == SliceOff(i)

\* lines 254, 258, 261: the slice of cleansequence the unit assigns
TargetSlice(i) == i

\* NoiseEstimator::Estimate on the window that starts at frame lo: the value
\* it derives for a slot (non-negative; one value per window)
EstimateOf(lo) == 10 + lo

\* the slots Estimate finds requesting estimation (negative sentinel)
Requested(p) == {s \in Slots : p[s] < 0}

NoLam == [kind |-> "none", v |-> 0]

\* line 240: the starting lambda handed to the search
SeedLambda(i) ==
  IF i = 0 THEN [kind |-> "mean", v |-> 1] ELSE [kind |-> "captured", v |-> lambda]

\* line 241: PGURE::Optimize searches [0, u.max()], u.max() = 1 after normalisation
Optimize(seed) == [kind |-> "opt", v |-> IF seed.v > 1 THEN 1 ELSE seed.v]

\* Reconstruct given the clamped local of line 113 in both modes
ReconLambda_clamped(i) ==
  IF pgureOpt THEN Optimize(SeedLambda(i)) ELSE [kind |-> "user", v |-> lambda]

\* lines 238-246: the lambda handed to Reconstruct
ReconLambda(i) ==
  IF pgureOpt THEN Optimize(SeedLambda(i)) ELSE [kind |-> "user", v |-> userLambda]

NoParams == [s \in Slots |-> 0]

\* cleansequence.zeros() (line 126)
ZeroSlice == [src |-> -1, lo |-> -1, used |-> NoParams, lam |-> NoLam, seed |-> NoLam]

NoObsRec ==
  [started |-> 0, lo |-> -1, hi |-> -1, flo |-> -1, fhi |-> -1, off |-> -1,
   used |-> NoParams, seed |-> NoLam, found |-> NoLam, lam |-> NoLam, searches |-> 0,
   wrote |-> {}, u |-> "none", ufilter |-> "none",
   nwrites |-> 0]

NoObs(n) == [i \in Frames(n) |-> NoObsRec]

\* how an exception leaving func ends the call: out of a std::thread's function, or
\* past a vector of joinable threads, std::terminate; otherwise it leaves PGURESVT
Escape(t) == IF t = 0 /\ Workers = {} THEN "threw" ELSE "terminated"

\* line 109: the OpenMP runtime takes the count; parallel() (std::thread) does
\* not consult that runtime
omp_set_num_threads(n) == n

\* lines 106-151: set-up, then parallel( mfunc, num_images )
Call ==
  /\ pc = "start"
  /\ noisysequence' = X
  /\ filteredsequence' = [i \in Frames(num_images) |-> ZeroFrame]
  /\ cleansequence' = [i \in Frames(num_images) |-> ZeroSlice]
  /\ dim_first' = 0 /\ dim_last' = num_images /\ threshold' = 1
  /\ batch' = "mfunc" /\ ppc' = "entry" /\ pc' = "median"
  /\ omp_num_threads' = omp_set_num_threads(numthreads)
  /\ UNCHANGED <<inputs, prep, buffers, params, index, threads, watch>>

\* The memory of one call of mfunc: what its two pointer variables hold, and
\* for every block who obtained it, how, and who released it, in order.
NoMemory == [Buffer |-> "none", FilteredBuffer |-> "none", blocks |-> <<>>]

\* lines 136, 137: ptr = new unsigned short[Nx*Ny]
NewArray(m, ptr, blk) ==
  [m EXCEPT ![ptr] = blk,
            !.blocks = @ @@ (blk :> [by |-> "mfunc", how |-> "new[]", released |-> <<>>])]

\* line 138: curslice is built by conv_to and owns its own storage
ConvTo(m) ==
  [m EXCEPT !.blocks = @ @@ ("curslice.mem" :> [by |-> "curslice", how |-> "Mat",
                                                 released |-> <<>>])]

\* line 140: Buffer = curslice.memptr()
memptr(m) == [m EXCEPT !.Buffer = "curslice.mem"]

\* lines 148, 149: delete[] ptr
DeleteArray(m, ptr) == [m EXCEPT !.blocks[m[ptr]].released = Append(@, "mfunc")]

\* a Mat of at most 16 elements keeps them inside the object itself
MatInObject == Nx * Ny <= 16

\* line 150: curslice goes out of scope and gives back storage it got from
\* the heap (filslice holds a copy of FilteredBuffer's contents, line 145)
ScopeExit(m) ==
  IF MatInObject THEN m
  ELSE [m EXCEPT !.blocks["curslice.mem"].released = Append(@, "curslice")]

\* delete[] of what no new[] returned, or of a block already released: undefined
InvalidDelete(m, ptr) ==
  m.blocks[m[ptr]].how /= "new[]" \/ m.blocks[m[ptr]].released /= <<>>

\* lines 136-147 done
AfterFilter ==
  memptr(ConvTo(NewArray(NewArray(NoMemory, "Buffer", "array136"),
                         "FilteredBuffer", "array137")))

\* lines 134-150: mfunc(i), as one step: it reads slice i of noisysequence,
\* assigns slice i of filteredsequence and releases its buffers. Where a
\* delete[] is undefined the run either goes on or the process is aborted.
MedianUnit(t) ==
  /\ Alive /\ batch = "mfunc" /\ CanRun(t) /\ HasWork(threads[t])
  /\ LET i == threads[t].a IN
       /\ filteredsequence' = [filteredsequence EXCEPT ![i] = MedianOf(noisysequence[i])]
       /\ \E aborted \in BOOLEAN :
            /\ aborted => InvalidDelete(AfterFilter, "Buffer")
            /\ IF aborted
                 THEN /\ heap' = [heap EXCEPT ![i] = DeleteArray(AfterFilter, "Buffer")]
                      /\ pc' = "terminated"
                      /\ UNCHANGED <<calls, threads>>
                 ELSE /\ heap' = [heap EXCEPT ![i] =
                             ScopeExit(DeleteArray(DeleteArray(AfterFilter, "Buffer"),
                                                   "FilteredBuffer"))]
                      /\ pc' = pc
                      /\ calls' = Counted("mfunc", i)
                      /\ threads' = Advance(t)
  /\ UNCHANGED <<inputs, hotpixel_calls, omp_num_threads, range, buffers, params,
                 noisysequence, cleansequence, batch, ppc, index, obs, acc>>

\* a work unit fails where it allocates (new[], lines 136-137; the cubes and
\* the new expressions of lines 186, 207, 218, 229)
UnitFault(t) ==
  /\ Alive /\ batch \in {"mfunc", "func"} /\ CanRun(t) /\ HasWork(threads[t])
  /\ threads[t].u.pc = "idle"
  /\ pc' = Escape(t)
  /\ UNCHANGED <<inputs, prep, omp_num_threads, range, buffers, shared, batch, ppc, index, threads, watch>>

\* the hot-pixel filter not waiting for the median batch
MedianJoined_early == pc = "median"

\* line 151 has returned: the statement of line 171 is next
MedianJoined == pc = "median" /\ ppc = "ret"

\* line 171, once the median batch has returned
HotPixel ==
  /\ MedianJoined
  /\ noisysequence' = HotPixelFilter(noisysequence)
  /\ hotpixel_calls' = hotpixel_calls + 1
  /\ X' = IF copy_aux_mem THEN X ELSE noisysequence'
  /\ pc' = "hotpixel"
  /\ UNCHANGED <<inputs, heap, omp_num_threads, range, Y, X0, status, params, filteredsequence,
                 cleansequence,
                 batch, ppc, index, threads, watch>>

\* lines 181-265: parallel( func, num_images )
CallFrames ==
  /\ pc = "hotpixel"
  /\ dim_first' = 0 /\ dim_last' = num_images /\ threshold' = 1
  /\ batch' = "func" /\ ppc' = "entry" /\ pc' = "frames"
  /\ threads' = [t \in {0} |-> NoJob]
  /\ UNCHANGED <<inputs, prep, omp_num_threads, buffers, shared, index, watch>>

\* an access of frame i's work unit: the variable, the slice of it (-1: all of
\* it), read or write
Acc(i, names, k, kind) == {[f |-> i, v |-> nm, k |-> k, op |-> kind] : nm \in names}

\* the largest pixel value of a frame: 0 for the all-zero frame
FrameMax(v) == IF v = ZeroFrame THEN 0 ELSE 1

\* lines 201, 203: Cube::max() over the slices lo..hi
CubeMax(seq, lo, hi) == IF \A k \in lo..hi : FrameMax(seq[k]) = 0 THEN 0 ELSE 1

\* lines 202, 203: the element-wise `/=` by the cube's own maximum m; IEEE
\* division, so every 0/0 of an all-zero cube is a NaN
DivideByMax(m) == IF m = 0 THEN "nan" ELSE "unit"

\* lines 186-203: the window of frame timeiter, normalised
FrameExtract(t) ==
  /\ Alive /\ batch = "func" /\ CanRun(t) /\ HasWork(threads[t])
  /\ threads[t].u.pc = "idle"
  /\ LET i == threads[t].a IN
       IF SlicesInBounds(WinLo(i), WinHi(i)) /\ SlicesInBounds(FiltLo(i), FiltHi(i))
         THEN /\ threads' = [threads EXCEPT ![t].u =
                   [pc |-> IF pgureOpt THEN "estimate" ELSE "optimize",
                    lo |-> WinLo(i), hi |-> WinHi(i), neg |-> {}]]
              /\ obs' = [obs EXCEPT ![i].started = @ + 1,
                                    ![i].lo = WinLo(i), ![i].hi = WinHi(i),
                                    ![i].flo = FiltLo(i), ![i].fhi = FiltHi(i),
                                    ![i].u =
                                       DivideByMax(CubeMax(noisysequence, WinLo(i), WinHi(i))),
                                    ![i].ufilter =
                                       DivideByMax(CubeMax(filteredsequence, FiltLo(i), FiltHi(i)))]
              /\ acc' = acc \cup Acc(i, {"noisysequence", "filteredsequence"}, -1, "r")
              /\ pc' = pc
         ELSE /\ pc' = Escape(t)
              /\ obs' = [obs EXCEPT ![i].started = @ + 1]
              /\ UNCHANGED <<threads, acc>>
  /\ UNCHANGED <<inputs, prep, omp_num_threads, range, buffers, shared, batch, ppc, index, calls>>

\* lines 207-213, entry of Estimate: alpha, mu, sigma are read through the
\* references and the negative ones are marked for estimation
EstimateRead(t) ==
  /\ Alive /\ batch = "func" /\ CanRun(t)
  /\ threads[t].u.pc = "estimate"
  /\ LET i == threads[t].a IN
       /\ threads' = [threads EXCEPT ![t].u.neg = Requested(params),
                                     ![t].u.pc = IF Requested(params) = {} THEN "optimize"
                                                 ELSE "store"]
       /\ acc' = acc \cup Acc(i, Slots, -1, "r")
  /\ UNCHANGED <<pc, inputs, prep, omp_num_threads, range, buffers, shared, batch, ppc, index, calls, obs>>

\* exit of Estimate: the estimates are stored through the references
EstimateStore(t) ==
  /\ Alive /\ batch = "func" /\ CanRun(t)
  /\ threads[t].u.pc = "store"
  /\ LET i == threads[t].a
         u == threads[t].u IN
       /\ params' = [s \in Slots |-> IF s \in u.neg THEN EstimateOf(u.lo) ELSE params[s]]
       /\ acc' = acc \cup Acc(i, u.neg, -1, "w")
       /\ threads' = [threads EXCEPT ![t].u.pc = "optimize"]
  /\ UNCHANGED <<pc, inputs, prep, omp_num_threads, range, buffers, noisysequence, filteredsequence,
                 cleansequence, batch, ppc, index, calls, obs>>

\* lines 218-262: motion estimation, Initialize (alpha, sigma, mu passed by
\* value), the search, Reconstruct, and the write of one slice of cleansequence
FrameFinish(t) ==
  /\ Alive /\ batch = "func" /\ CanRun(t)
  /\ threads[t].u.pc = "optimize"
  /\ LET i == threads[t].a
         u == threads[t].u
         k == TargetSlice(i) IN
       /\ cleansequence' = [cleansequence EXCEPT ![k] =
              [src |-> u.lo + SliceOff(i), lo |-> u.lo, used |-> params,
               lam |-> ReconLambda(i),
               seed |-> IF pgureOpt THEN SeedLambda(i) ELSE NoLam]]
       /\ obs' = [obs EXCEPT ![i].used = params,
                             ![i].off = SliceOff(i),
                             ![i].seed = IF pgureOpt THEN SeedLambda(i) ELSE NoLam,
                             ![i].found = IF pgureOpt THEN Optimize(SeedLambda(i)) ELSE NoLam,
                             ![i].lam = ReconLambda(i),
                             ![i].searches = IF pgureOpt THEN @ + 1 ELSE @,
                             ![i].wrote = @ \cup {k},
                             ![k].nwrites = @ + 1]
       /\ acc' = acc \cup Acc(i, Slots, -1, "r") \cup Acc(i, {"cleansequence"}, k, "w")
       /\ calls' = Counted("func", i)
  /\ threads' = Advance(t)
  /\ UNCHANGED <<pc, inputs, prep, omp_num_threads, range, buffers, params, noisysequence, filteredsequence,
                 batch, ppc, index>>

\* lines 276-278: memcpy into Y, return 0
Return ==
  /\ pc = "frames" /\ ppc = "ret"
  /\ Y' = cleansequence
  /\ status' = <<0>>
  /\ pc' = "returned"
  /\ UNCHANGED <<inputs, prep, omp_num_threads, range, X, X0, shared, batch, ppc, index, threads, watch>>

\* the caller's arguments
ParamChoices == {[s \in Slots |-> -1], [s \in Slots |-> 1],
                 [s \in Slots |-> IF s = "mu" THEN 2 ELSE -1]}

XChoices(n) == {[i \in Frames(n) |-> ZeroFrame],
                [i \in Frames(n) |-> IF i = 0 THEN HotFrame ELSE PlainFrame]}

Init ==
  /\ pc = "start"
  /\ num_images \in 1..MaxImages
  /\ X \in XChoices(num_images) /\ X0 = X
  /\ Y = [i \in Frames(num_images) |-> ZeroSlice]
  /\ status = <<>>
  /\ T \in 0..MaxT
  /\ Bs \in Nx..(Nx + 1)
  /\ pgureOpt \in BOOLEAN
  /\ userLambda \in {-1, 2}
  /\ numthreads = 1 /\ omp_num_threads = 0
  /\ params0 \in ParamChoices /\ params = params0
  /\ noisysequence = <<>> /\ filteredsequence = <<>> /\ cleansequence = <<>>
  /\ total_cores \in 0..MaxCores
  /\ dim_first = 0 /\ dim_last = 0 /\ threshold = 0
  /\ batch = "none" /\ ppc = "idle" /\ index = 0
  /\ threads = [t \in {0} |-> NoJob]
  /\ calls = NoCalls(num_images)
  /\ obs = NoObs(num_images)
  /\ acc = {}
  /\ hotpixel_calls = 0 /\ heap = [i \in Frames(num_images) |-> NoMemory]

Next ==
  \/ Call
  \/ Scheduler
  \/ \E t \in 0..MaxCores : MedianUnit(t)
  \/ \E t \in 0..MaxCores : UnitFault(t)
  \/ HotPixel
  \/ CallFrames
  \/ \E t \in 0..MaxCores : FrameExtract(t)
  \/ \E t \in 0..MaxCores : EstimateRead(t)
  \/ \E t \in 0..MaxCores : EstimateStore(t)
  \/ \E t \in 0..MaxCores : FrameFinish(t)
  \/ Return

Spec == Init /\ [][Next]_vars

\* ------------------------------------------------------------- SpecPar
InitPar ==
  /\ pc = "par"
  /\ X = <<>> /\ Y = <<>> /\ X0 = <<>> /\ status = <<>>
  /\ num_images = 0 /\ T = 0 /\ Bs = 0 /\ pgureOpt = FALSE /\ userLambda = 0
  /\ numthreads = 1 /\ omp_num_threads = 0
  /\ params0 = [s \in Slots |-> 0] /\ params = [s \in Slots |-> 0]
  /\ noisysequence = <<>> /\ filteredsequence = <<>> /\ cleansequence = <<>>
  /\ total_cores \in 0..MaxParCores
  /\ dim_first \in 0..MaxFirst
  /\ dim_last \in dim_first..(dim_first + MaxRange)
  /\ threshold \in 0..MaxThreshold
  /\ batch = "count" /\ ppc = "entry" /\ index = 0
  /\ threads = [t \in {0} |-> NoJob]
  /\ calls = NoCalls(dim_last)
  /\ obs = NoObs(0)
  /\ acc = {}
  /\ hotpixel_calls = 0 /\ heap = <<>>

ParReturn ==
  /\ pc = "par" /\ ppc = "ret"
  /\ pc' = "pardone" /\ ppc' = "idle"
  /\ UNCHANGED <<inputs, prep, omp_num_threads, range, buffers, shared, batch, index, threads, watch>>

NextPar ==
  \/ Scheduler
  \/ \E t \in 0..MaxParCores : CountUnit(t)
  \/ ParReturn

SpecPar == InitPar /\ [][NextPar]_vars

\* ------------------------------------------------------------- SpecWin
\* The frame work unit of one target index, run on the calling thread, for
\* every (num_images, T, timeiter) within the bounds.
InitWin ==
  /\ pc = "win"
  /\ num_images \in 1..MaxSeq
  /\ X = [i \in Frames(num_images) |-> PlainFrame] /\ X0 = X
  /\ Y = [i \in Frames(num_images) |-> ZeroSlice]
  /\ status = <<>>
  /\ T \in 0..MaxWinT
  /\ Bs = Nx
  /\ pgureOpt = FALSE
  /\ userLambda = 2
  /\ numthreads = 1 /\ omp_num_threads = 1
  /\ params0 = [s \in Slots |-> 1] /\ params = params0
  /\ noisysequence = X
  /\ filteredsequence = X
  /\ cleansequence = [i \in Frames(num_images) |-> ZeroSlice]
  /\ total_cores = 1
  /\ dim_first = 0 /\ dim_last = num_images /\ threshold = 1
  /\ batch = "func" /\ ppc = "seq" /\ index = 0
  /\ \E timeiter \in Frames(num_images) :
        threads = [t \in {0} |-> Job(timeiter, timeiter + 1)]
  /\ calls = NoCalls(num_images)
  /\ obs = NoObs(num_images)
  /\ acc = {}
  /\ hotpixel_calls = 0 /\ heap = <<>>

NextWin ==
  \/ FrameExtract(0)
  \/ FrameFinish(0)

SpecWin == InitWin /\ [][NextWin]_vars

\* --------------------------------------------------------- SpecThreads
\* One call of PGURESVT with the caller's thread count varied, parameter
\* estimation and the lambda search enabled, on a valid geometry.
InitThreads ==
  /\ pc = "start"
  /\ num_images \in 1..MaxImages
  /\ X = [i \in Frames(num_images) |-> PlainFrame] /\ X0 = X
  /\ Y = [i \in Frames(num_images) |-> ZeroSlice]
  /\ status = <<>>
  /\ T = 1
  /\ Bs = Nx
  /\ pgureOpt = TRUE
  /\ userLambda = 2
  /\ numthreads \in 1..MaxThreads /\ omp_num_threads = 0
  /\ params0 = [s \in Slots |-> -1] /\ params = params0
  /\ noisysequence = <<>> /\ filteredsequence = <<>> /\ cleansequence = <<>>
  /\ total_cores \in 0..MaxCores
  /\ dim_first = 0 /\ dim_last = 0 /\ threshold = 0
  /\ batch = "none" /\ ppc = "idle" /\ index = 0
  /\ threads = [t \in {0} |-> NoJob]
  /\ calls = NoCalls(num_images)
  /\ obs = NoObs(num_images)
  /\ acc = {}
  /\ hotpixel_calls = 0 /\ heap = [i \in Frames(num_images) |-> NoMemory]

SpecThreads == InitThreads /\ [][Next]_vars

\* ============================================================== claims

\* the frame batch has returned from parallel()
FramesJoined == (pc = "frames" /\ ppc = "ret") \/ pc = "returned"

\* patch size beyond the frame, or a non-positive window length
InvalidGeometry == Bs > Nx \/ Bs > Ny \/ T <= 0

\* ---- C1 (SpecPar) ----
\* C1: when parallel(func, first, last, threshold) has returned, func has been
\* invoked exactly once on every index of first..last-1 and never on an index
\* outside it, for every first <= last, threshold and number of cores.
C1_ExactlyOnce ==
  pc = "pardone" =>
    \A i \in DOMAIN calls["count"] :
      calls["count"][i] = IF dim_first <= i /\ i < dim_last THEN 1 ELSE 0

\* ---- C2 (Spec) ----
\* C2: parallel() returns only when every thread it launched has finished its
\* work and has been joined, and PGURESVT copies cleansequence into Y only
\* after every frame work unit has finished.
C2_ReturnsAfterAllWork ==
  /\ ppc = "ret" =>
       /\ \A t \in DOMAIN threads : Finished(threads[t])
       /\ \A t \in Workers : t < index
  /\ pc = "returned" =>
       /\ \A i \in Frames(num_images) : calls["func"][i] >= 1
       /\ \A t \in DOMAIN threads : Finished(threads[t])
       /\ Y = cleansequence

C2_Witness ==
  /\ pc = "returned"
  /\ Cardinality(Workers) >= 2
  /\ \A i \in Frames(num_images) : Y[i] /= ZeroSlice

\* ---- C3 (Spec) ----
\* C3: the work unit of frame i writes slice i of cleansequence and no other
\* slice; once the frame batch has returned every slice 0..num_images-1 has
\* been written exactly once, and Y has as many frames as X.
C3_OneSliceEach ==
  /\ \A i \in DOMAIN obs : obs[i].wrote \subseteq {i}
  /\ \A i \in DOMAIN obs : obs[i].nwrites <= 1
  /\ FramesJoined =>
       /\ \A i \in Frames(num_images) : obs[i].nwrites = 1 /\ obs[i].wrote = {i}
       /\ DOMAIN cleansequence = DOMAIN X0
  /\ pc = "returned" => DOMAIN Y = DOMAIN X0

C3_Witness ==
  /\ pc = "returned"
  /\ num_images = MaxImages
  /\ Workers /= {}
  /\ \A i \in Frames(num_images) : obs[i].nwrites = 1

\* ---- C4 (Spec) ----
\* two accesses touch the same storage
SameStorage(a, b) == a.v = b.v /\ (a.k = b.k \/ a.k = -1 \/ b.k = -1)

\* C4: in a call with valid geometry no variable is written by one frame's
\* work unit and read or written by another frame's work unit (alpha, mu,
\* sigma in particular).
C4_NoSharedWritable ==
  ~InvalidGeometry =>
    \A a \in acc : \A b \in acc :
      (a.f /= b.f /\ SameStorage(a, b)) => (a.op = "r" /\ b.op = "r")

\* ---- C5 (Spec) ----
\* the by-reference noise parameters after frames 0..i have run one after the
\* other in ascending order (the sequential branch of parallel())
RECURSIVE SeqParams(_)
SeqParams(i) ==
  LET before == IF i = 0 THEN params0 ELSE SeqParams(i - 1) IN
    IF pgureOpt
      THEN [s \in Slots |-> IF before[s] < 0 THEN EstimateOf(WinLo(i)) ELSE before[s]]
      ELSE before

SeqSlice(i) ==
  [src |-> WinLo(i) + SliceOff(i), lo |-> WinLo(i), used |-> SeqParams(i),
   lam |-> ReconLambda(i), seed |-> IF pgureOpt THEN SeedLambda(i) ELSE NoLam]

\* C5: in a call with valid geometry the noise parameters and threshold used
\* for frame i and the value of output slice i are those of the sequential
\* order, whatever the schedule and the number of cores.
C5_ScheduleIndependent ==
  (pc = "returned" /\ ~InvalidGeometry) =>
    \A i \in Frames(num_images) :
      /\ obs[i].used = SeqParams(i)
      /\ obs[i].lam = ReconLambda(i)
      /\ Y[i] = SeqSlice(i)

\* ---- C6 (SpecWin) ----
OddWindow == T % 2 = 1 /\ num_images >= T

\* the target index of SpecWin's single work unit
Target == CHOOSE i \in DOMAIN obs : obs[i].started > 0

Extracted == \E i \in DOMAIN obs : obs[i].started > 0 /\ obs[i].lo >= 0

\* C6: for odd T and num_images >= T the window of target i is frames 0..T-1
\* when i < T \div 2, frames num_images-T..num_images-1 when
\* i >= num_images - T \div 2, and i - T \div 2..i + T \div 2 otherwise, and
\* the same range is taken from the noisy and the filtered sequence.
C6_WindowRange ==
  (OddWindow /\ Extracted) =>
    LET i == Target
        h == (T - 1) \div 2
        r == obs[i] IN
      /\ i < h => (r.lo = 0 /\ r.hi = T - 1)
      /\ i >= num_images - h => (r.lo = num_images - T /\ r.hi = num_images - 1)
      /\ (i >= h /\ i < num_images - h) => (r.lo = i - h /\ r.hi = i + h)
      /\ r.flo = r.lo /\ r.fhi = r.hi
      /\ r.hi - r.lo + 1 = T

C6_Witness ==
  /\ num_images = 10 /\ T = 5
  /\ obs[9].started = 1 /\ obs[9].lo = 5 /\ obs[9].hi = 9
  /\ obs[9].flo = 5 /\ obs[9].fhi = 9

\* ---- C7 (SpecWin) ----
\* C7: for odd T and num_images >= T, the slice of the reconstruction written
\* to output index i is the window frame of absolute index i.
C7_SelectedIsTarget ==
  OddWindow =>
    \A i \in Frames(num_images) :
      obs[i].nwrites > 0 =>
        /\ cleansequence[i].src = i
        /\ obs[i].lo + obs[i].off = i

C7_Witness ==
  /\ num_images = 10 /\ T = 5
  /\ obs[9].nwrites = 1 /\ obs[9].off = 4 /\ cleansequence[9].src = 9

\* ---- C8 (Spec) ----
\* C8: with invalid geometry no median-filter or frame work unit is ever
\* scheduled: parallel() is not entered and no unit runs.
C8_RejectedBeforeWork ==
  InvalidGeometry =>
    /\ batch = "none" /\ ppc = "idle"
    /\ \A i \in DOMAIN obs : calls["mfunc"][i] = 0 /\ obs[i].started = 0

\* ---- C9 (Spec) ----
\* the call has ended on a fault inside a frame work unit
FrameFaulted == batch = "func" /\ pc \in {"terminated", "threw"}

\* C9: a call (of valid geometry) that ended on a fault inside a frame work
\* unit has returned a non-zero status to its caller, and a call that
\* returned 0 completed every frame work unit.
C9_FaultGivesStatus ==
  /\ (FrameFaulted /\ ~InvalidGeometry) => (status /= <<>> /\ status /= <<0>>)
  /\ status = <<0>> => \A i \in Frames(num_images) : calls["func"][i] = 1

\* ---- C10 (Spec) ----
\* C10: X is never written: it holds at every moment what it held at the
\* call; the filters work on the copy, and what the call hands back is Y.
C10_InputUntouched ==
  /\ X = X0
  /\ pc = "returned" => Y = cleansequence

C10_Witness ==
  /\ pc = "returned"
  /\ noisysequence /= X0
  /\ Y /= [i \in Frames(num_images) |-> ZeroSlice]
  /\ X = X0

\* ---- C11 (Spec) ----
\* a frame work unit has run to its end on index i
Processed(i) == calls["func"][i] >= 1

\* C11: with pgureOpt false no frame runs the lambda search and every frame is
\* reconstructed with exactly the caller's userLambda; with pgureOpt true every
\* processed frame ran the search exactly once and was reconstructed with the
\* lambda that search returned.
C11_SearchOnlyWhenEnabled ==
  \A i \in DOMAIN obs :
     /\ ~pgureOpt =>
          /\ obs[i].searches = 0 /\ obs[i].found = NoLam
          /\ Processed(i) => obs[i].lam = [kind |-> "user", v |-> userLambda]
     /\ (pgureOpt /\ Processed(i)) =>
          /\ obs[i].searches = 1
          /\ obs[i].found.kind = "opt"
          /\ obs[i].lam = obs[i].found

\* an automatic call has returned: each of its two frames searched once, from
\* its own seed, and was reconstructed with what the search returned
C11_Witness ==
  /\ pc = "returned" /\ num_images = 2 /\ pgureOpt /\ userLambda < 0
  /\ \A i \in DOMAIN obs :
        obs[i].searches = 1 /\ obs[i].lam = Optimize(obs[i].seed)

\* ---- C12 (Spec) ----
\* C12: the lambda handed to Reconstruct is non-negative for every processed
\* frame, in manual and in automatic mode, whatever userLambda the caller gave
\* (a negative one included); stated for the valid geometries.
C12_LambdaNonNegative ==
  ~InvalidGeometry =>
    \A i \in DOMAIN obs : Processed(i) => obs[i].lam.v >= 0

\* ---- C13 (SpecThreads) ----
\* the threads that are inside a frame work unit now
InFrameUnit == {t \in DOMAIN threads : batch = "func" /\ threads[t].u.pc /= "idle"}

\* C13: at no time are more than numthreads frame work units in execution, and
\* numthreads takes the place of the hardware concurrency as parallel()'s P:
\* with numthreads = 1 the frame batch launches no worker thread.
C13_AtMostNumthreads ==
  pc = "frames" =>
    /\ Cardinality(InFrameUnit) <= numthreads
    /\ numthreads <= 1 => Workers = {}

\* ---- C14 (SpecPar) ----
\* func has been invoked on exactly the indices first..k-1 of the range, once each
InvokedUpTo(k) ==
  \A i \in DOMAIN calls["count"] :
     calls["count"][i] = IF dim_first <= i /\ i < k THEN 1 ELSE 0

\* C14: when P <= 1 or last - first <= threshold, parallel() launches no worker
\* thread and the calling thread invokes func on every index of the range in
\* ascending order: at every moment the invoked indices are an initial part
\* first..k-1 of the range, and all of it once parallel() has returned.
C14_SequentialOnCaller ==
  (total_cores <= 1 \/ dim_last - dim_first <= threshold) =>
     /\ Workers = {}
     /\ \E k \in dim_first..dim_last : InvokedUpTo(k)
     /\ pc = "pardone" => InvokedUpTo(dim_last)

\* several cores, a range of MaxThreshold indices under the threshold, not
\* starting at 0: returned with every index run and no worker launched
C14_Witness ==
  /\ pc = "pardone" /\ total_cores >= 2 /\ dim_first = 1
  /\ dim_last - dim_first = MaxThreshold /\ threshold = MaxThreshold
  /\ Workers = {} /\ threads[0].from = dim_first /\ InvokedUpTo(dim_last)

\* ---- C15 (SpecPar) ----
\* parallel() is past its launch loops (and past the calling thread's own block)
Launched == (pc = "par" /\ ppc \in {"join", "ret"}) \/ pc = "pardone"

\* the calling thread was given no index to run
CallerRunsNone == threads[0] = NoJob

\* the calling thread ran job_slice( . , last): its loop stops at the end of the range
CallerRanFinalBlock == threads[0].b = dim_last

\* one worker per index of the range, the calling thread running none
OnePerIndex ==
  /\ Cardinality(Workers) = dim_last - dim_first
  /\ \A t \in Workers : threads[t].from = dim_first + t - 1 /\ threads[t].b = threads[t].from + 1
  /\ CallerRunsNone

\* C15 as stated: outside the sequential case, one worker per index (the calling
\* thread running none) exactly when last - first < P; for every
\* last - first >= P exactly P - 1 workers, the final block on the calling thread.
C15_SmallJobBelowP ==
  (Launched /\ ~(total_cores <= 1 \/ dim_last - dim_first <= threshold)) =>
     /\ OnePerIndex <=> dim_last - dim_first < total_cores
     /\ dim_last - dim_first >= total_cores =>
          Cardinality(Workers) = total_cores - 1 /\ CallerRanFinalBlock

\* C15 amended: outside the sequential case, one worker per index (the calling
\* thread running none) exactly when last - first <= P; for every
\* last - first > P exactly P - 1 workers are launched and the calling thread
\* runs job_slice up to last itself.
C15_SmallJobUpToP ==
  (Launched /\ ~(total_cores <= 1 \/ dim_last - dim_first <= threshold)) =>
     /\ OnePerIndex <=> dim_last - dim_first <= total_cores
     /\ dim_last - dim_first > total_cores =>
          Cardinality(Workers) = total_cores - 1 /\ CallerRanFinalBlock

\* last - first = P = 3: three workers, one index each, were launched and
\* joined, and the calling thread ran nothing
C15_Witness ==
  /\ pc = "pardone" /\ total_cores = 3 /\ dim_last - dim_first = 3 /\ threshold <= 1
  /\ OnePerIndex /\ InvokedUpTo(dim_last)

\* ---- C16 (SpecPar) ----
\* ceil(n / P) for the range and core count of the call
BlockLen == (dim_last - dim_first + total_cores - 1) \div total_cores

\* the block branch was taken and every block has been handed out
BlocksHandedOut ==
  /\ (pc = "par" /\ ppc \in {"main", "join", "ret"}) \/ pc = "pardone"
  /\ total_cores > 1 /\ dim_last - dim_first > threshold
  /\ dim_last - dim_first > total_cores

\* C16: in the block branch the blocks are contiguous, pairwise disjoint and
\* ascending: worker k (k = 0..P-2) is started on first + k*ceil(n/P) and holds
\* exactly ceil(n/P) indices, and the calling thread runs the one remaining
\* block, from first + (P-1)*ceil(n/P) to last.
C16_EqualBlocks ==
  BlocksHandedOut =>
     /\ \A t \in Workers :
          /\ threads[t].from = dim_first + (t - 1) * BlockLen
          /\ threads[t].b = threads[t].from + BlockLen
     /\ threads[0].from = dim_first + (total_cores - 1) * BlockLen
     /\ threads[0].b = dim_last

\* ---- C17 (Spec) ----
\* C17: in automatic mode the search of frame 0 starts from the window mean,
\* and the search of every later frame starts from the lambda that the search of
\* another, already processed frame returned.
C17_SeedFromPrevious ==
  (pgureOpt /\ ~InvalidGeometry) =>
     \A i \in DOMAIN obs : obs[i].searches >= 1 =>
        IF i = 0 THEN obs[i].seed.kind = "mean"
        ELSE \E j \in DOMAIN obs \ {i} :
                obs[j].searches >= 1 /\ obs[i].seed = obs[j].found

\* ---- C18 (Spec) ----
\* C18: with pgureOpt true, a noise parameter the caller passed as the negative
\* sentinel is estimated for every frame from that frame's own window: the value
\* frame i's optimizer receives is the estimate made on the window of frame i.
\* A parameter the caller supplied (non-negative) reaches every frame's optimizer
\* unchanged.
C18_OwnWindowEstimate ==
  ~InvalidGeometry =>
     \A i \in DOMAIN obs : Processed(i) =>
        \A s \in Slots :
           /\ (pgureOpt /\ params0[s] < 0) => obs[i].used[s] = EstimateOf(obs[i].lo)
           /\ params0[s] >= 0 => obs[i].used[s] = params0[s]

\* ---- C19 (Spec) ----
\* the window extracted for frame i from seq holds only all-zero frames
ZeroWindow(seq, i) ==
  /\ obs[i].lo >= 0
  /\ \A k \in obs[i].lo..obs[i].hi : seq[k] = ZeroFrame

\* C19: normalising a window whose maximum is zero (the noisy window, or the
\* median-filtered one) yields an all-zero window and no undefined value, and
\* the frame is processed like any other: once the frame batch has returned,
\* the frame has been reconstructed and written.
C19_ZeroWindowStaysZero ==
  ~InvalidGeometry =>
     \A i \in DOMAIN obs :
        /\ ZeroWindow(noisysequence, i) => obs[i].u = "zeros"
        /\ ZeroWindow(filteredsequence, i) => obs[i].ufilter = "zeros"
        /\ (ZeroWindow(noisysequence, i) /\ FramesJoined) => Processed(i)

\* ---- C20 (SpecWin) ----
\* C20: for every T >= 1, odd or even, and num_images >= T, the window the
\* work unit of frame i extracts holds exactly T frames, and the slice it
\* writes to output index i is the window frame of absolute index i.
C20_AnyWindowLength ==
  (T >= 1 /\ num_images >= T) =>
    \A i \in DOMAIN obs :
      /\ obs[i].started > 0 => (obs[i].lo >= 0 /\ obs[i].hi - obs[i].lo + 1 = T)
      /\ obs[i].nwrites > 0 => cleansequence[i].src = i

\* ---- C21 (Spec) ----
\* mfunc has run exactly once on every frame, and every filtered frame is the
\* median of the noisy frame as the caller passed it
MedianComplete ==
  \A j \in Frames(num_images) :
     calls["mfunc"][j] = 1 /\ filteredsequence[j] = MedianOf(X0[j])

\* some frame work unit has started to extract its window
WindowingBegun == \E i \in DOMAIN obs : obs[i].started > 0

\* C21: no frame is median-filtered more than once; the hot-pixel filter runs
\* at most once, on the whole noisy sequence, and only when the median batch
\* has filtered every frame; and when a frame work unit extracts its window,
\* every frame has been median-filtered exactly once and the hot-pixel filter
\* has run exactly once.
C21_PreprocessingFirst ==
  /\ \A j \in Frames(num_images) : calls["mfunc"][j] <= 1
  /\ hotpixel_calls <= 1
  /\ hotpixel_calls = 1 => (MedianComplete /\ noisysequence = HotPixelFilter(X0))
  /\ WindowingBegun => (MedianComplete /\ hotpixel_calls = 1)

\* three frames on three cores, the first one with a hot pixel: the median
\* batch ran on three workers, the hot pixel is gone from the noisy sequence
\* and the first windows are being extracted
C21_Witness ==
  /\ pc = "frames" /\ num_images = 3 /\ total_cores = 3 /\ ~InvalidGeometry
  /\ X0[0] = HotFrame /\ noisysequence[0] = PlainFrame
  /\ MedianComplete /\ hotpixel_calls = 1
  /\ Cardinality(InFrameUnit) >= 2

\* ---- C22 (Spec) ----
\* C22: in every median work unit that has run to its end, each block the unit
\* obtained with new[] has been released exactly once, by that unit, and the
\* unit has released no block it did not obtain itself; stated for the valid
\* geometries.
C22_ScratchReleasedOnce ==
  ~InvalidGeometry =>
     \A i \in DOMAIN heap : calls["mfunc"][i] >= 1 =>
        \A b \in DOMAIN heap[i].blocks :
           LET blk == heap[i].blocks[b] IN
             /\ blk.how = "new[]" => blk.released = <<"mfunc">>
             /\ blk.how /= "new[]" =>
                  \A k \in DOMAIN blk.released : blk.released[k] /= "mfunc"

====
